---- MODULE Spec2Model ----
(***************************************************************************)
(* Model of dbbs_models/granule_cell_models.py: the morphology builder of  *)
(* GranuleBase (soma, dendrites, hillock, initial segment, ascending axon, *)
(* parallel fiber) and the static parameter tables of the four variants.   *)
(*                                                                         *)
(* Lengths and coordinates are fixed-point integers: Unit per micrometre,  *)
(* so 5.62232 um is 562232.  Compartments live in model.sections in the    *)
(* order p.Section() created them; a compartment is referred to by its     *)
(* index there, and parent = 0 means "not connected".                      *)
(***************************************************************************)
EXTENDS Integers, Sequences, FiniteSets, TLC

VARIABLES model, pc, variant

vars == <<model, pc, variant>>

\* ------------------------------------------------------------------ bounds

\* Placement coordinates range over -MaxCoord..MaxCoord micrometres.
MaxCoord == 1

\* ------------------------------------------------------------ fixed point

Unit == 10^5

Coords == {c * Unit : c \in (-MaxCoord)..MaxCoord}

Positions == {<<x, y, z>> : x \in Coords, y \in Coords, z \in Coords}

\* numpy: position + [dx, dy, dz] gives a new array
Plus(pt, d) == <<pt[1] + d[1], pt[2] + d[2], pt[3] + d[3]>>

Abs(a) == IF a < 0 THEN -a ELSE a

\* int(a / b): true division, then truncation toward zero
IntDiv(a, b) ==
    IF (a >= 0) = (b > 0) THEN Abs(a) \div Abs(b) ELSE -(Abs(a) \div Abs(b))

\* range(n) is empty when n <= 0
RangeLen(n) == IF n > 0 THEN n ELSE 0

\* the four model classes; each inherits builder from GranuleBase
Variants ==
    {"GranuleCell", "GranuleCellMildAdapting", "GranuleCellAdapting",
     "GranuleCellAccelerate"}

\* ------------------------------------------------------ parameter tables

\* GranuleCell.synapse_types: name, point process, attributes in source order;
\* every number is written as Python prints the float it denotes
GranuleCell_synapse_types ==
    <<
    [name |-> "AMPA", point_process |-> <<"AMPA", "granule">>,
     attributes |-> <<<<<<"tau_facil">>, "5.0">>,
                    <<<<"tau_rec">>, "8.0">>,
                    <<<<"tau_1">>, "1.0">>,
                    <<<<"gmax">>, "1400.0">>,
                    <<<<"U">>, "0.43">>>>],
    [name |-> "NMDA", point_process |-> <<"NMDA", "granule">>,
     attributes |-> <<<<<<"tau_facil">>, "5.0">>,
                    <<<<"tau_rec">>, "8.0">>,
                    <<<<"tau_1">>, "1.0">>,
                    <<<<"gmax">>, "23500.0">>,
                    <<<<"U">>, "0.43">>>>],
    [name |-> "GABA", point_process |-> <<"GABA", "granule">>,
     attributes |-> <<<<<<"U">>, "0.35">>>>]
    >>

\* GranuleCell.section_types: one entry per role in source order; a mechanism is
\* <<name>> or <<name, variant tag>>, an attribute key <<name>> or
\* <<name, mechanism>>; synapses is <<>> where the role has no such key
GranuleCell_section_types ==
    <<
    [role |-> "soma",
     synapses |-> <<>>,
     mechanisms |-> <<<<"Leak">>, <<"Kv3_4">>, <<"Kv4_3">>, <<"Kir2_3">>, <<"Ca">>, <<"Kv1_1">>, <<"Kv1_5">>, <<"Kv2_2">>, <<"cdp5", "CR">>>>,
     attributes |-> <<<<<<"Ra">>, "100.0">>,
                    <<<<"cm">>, "2.0">>,
                    <<<<"e", "Leak">>, "-60.0">>,
                    <<<<"ek">>, "-88.0">>,
                    <<<<"eca">>, "137.5">>,
                    <<<<"gmax", "Leak">>, "0.00029038073716">>,
                    <<<<"gkbar", "Kv3_4">>, "0.00076192450952">>,
                    <<<<"gkbar", "Kv4_3">>, "0.00281496839061">>,
                    <<<<"gkbar", "Kir2_3">>, "0.00074725514702">>,
                    <<<<"gcabar", "Ca">>, "0.00060938071784">>,
                    <<<<"gbar", "Kv1_1">>, "0.00569738264555">>,
                    <<<<"gKur", "Kv1_5">>, "0.00083407556714">>,
                    <<<<"gKv2_2bar", "Kv2_2">>, "1.203410852e-05">>>>],
    [role |-> "dendrites",
     synapses |-> <<"NMDA", "AMPA", "GABA">>,
     mechanisms |-> <<<<"Leak">>, <<"Leak", "GABA">>, <<"Ca">>, <<"Kca1_1">>, <<"Kv1_1">>, <<"cdp5", "CR">>>>,
     attributes |-> <<<<<<"Ra">>, "100.0">>,
                    <<<<"cm">>, "2.5">>,
                    <<<<"e", "Leak">>, "-60.0">>,
                    <<<<"ek">>, "-88.0">>,
                    <<<<"eca">>, "137.5">>,
                    <<<<"gmax", "Leak">>, "0.00025029700737">>,
                    <<<<"gcabar", "Ca">>, "0.00500128008459">>,
                    <<<<"gbar", "Kca1_1">>, "0.01001807454651">>,
                    <<<<"gbar", "Kv1_1">>, "0.00381819207934">>>>],
    [role |-> "axon",
     synapses |-> <<>>,
     mechanisms |-> <<>>,
     attributes |-> <<>>],
    [role |-> "ascending_axon",
     synapses |-> <<>>,
     mechanisms |-> <<<<"Na", "granule_cell">>, <<"Kv3_4">>, <<"Leak">>, <<"Ca">>, <<"cdp5", "CR">>>>,
     attributes |-> <<<<<<"Ra">>, "100.0">>,
                    <<<<"cm">>, "1.0">>,
                    <<<<"ena">>, "87.39">>,
                    <<<<"ek">>, "-88.0">>,
                    <<<<"e", "Leak">>, "-60.0">>,
                    <<<<"eca">>, "137.5">>,
                    <<<<"gnabar", "Na">>, "0.02630163681502">>,
                    <<<<"gkbar", "Kv3_4">>, "0.00237386061632">>,
                    <<<<"gmax", "Leak">>, "9.364092125e-05">>,
                    <<<<"gcabar", "Ca">>, "0.00068197420273">>>>],
    [role |-> "parallel_fiber",
     synapses |-> <<>>,
     mechanisms |-> <<<<"Na", "granule_cell">>, <<"Kv3_4">>, <<"Leak">>, <<"Ca">>, <<"cdp5", "CR">>>>,
     attributes |-> <<<<<<"L">>, "20.0">>,
                    <<<<"diam">>, "0.15">>,
                    <<<<"Ra">>, "100.0">>,
                    <<<<"cm">>, "1.0">>,
                    <<<<"ena">>, "87.39">>,
                    <<<<"ek">>, "-88.0">>,
                    <<<<"e", "Leak">>, "-60.0">>,
                    <<<<"eca">>, "137.5">>,
                    <<<<"gnabar", "Na">>, "0.01771848449261">>,
                    <<<<"gkbar", "Kv3_4">>, "0.00817568047037">>,
                    <<<<"gmax", "Leak">>, "3.5301616e-07">>,
                    <<<<"gcabar", "Ca">>, "0.0002085683353">>>>],
    [role |-> "axon_initial_segment",
     synapses |-> <<>>,
     mechanisms |-> <<<<"Na", "granule_cell_FHF">>, <<"Kv3_4">>, <<"Leak">>, <<"Ca">>, <<"Km">>, <<"cdp5", "CR">>>>,
     attributes |-> <<<<<<"Ra">>, "100.0">>,
                    <<<<"cm">>, "1.0">>,
                    <<<<"ena">>, "87.39">>,
                    <<<<"ek">>, "-88.0">>,
                    <<<<"eca">>, "137.5">>,
                    <<<<"e", "Leak">>, "-60.0">>,
                    <<<<"gnabar", "Na">>, "1.28725006737226">>,
                    <<<<"gkbar", "Kv3_4">>, "0.00649595340654">>,
                    <<<<"gmax", "Leak">>, "0.00029276697557">>,
                    <<<<"gcabar", "Ca">>, "0.00031198539472">>,
                    <<<<"gkbar", "Km">>, "0.00056671971737">>>>],
    [role |-> "axon_hillock",
     synapses |-> <<>>,
     mechanisms |-> <<<<"Leak">>, <<"Na", "granule_cell_FHF">>, <<"Kv3_4">>, <<"Ca">>, <<"cdp5", "CR">>>>,
     attributes |-> <<<<<<"Ra">>, "100.0">>,
                    <<<<"cm">>, "2.0">>,
                    <<<<"e", "Leak">>, "-60.0">>,
                    <<<<"ena">>, "87.39">>,
                    <<<<"ek">>, "-88.0">>,
                    <<<<"eca">>, "137.5">>,
                    <<<<"gmax", "Leak">>, "0.0003695818972">>,
                    <<<<"gnabar", "Na">>, "0.00928805851462">>,
                    <<<<"gkbar", "Kv3_4">>, "0.02037346310915">>,
                    <<<<"gcabar", "Ca">>, "0.00057726155447">>>>]
    >>

\* GranuleCellMildAdapting.synapse_types: name, point process, attributes in source order;
\* every number is written as Python prints the float it denotes
GranuleCellMildAdapting_synapse_types ==
    <<
    [name |-> "AMPA", point_process |-> <<"AMPA", "granule">>,
     attributes |-> <<<<<<"tau_facil">>, "5.0">>,
                    <<<<"tau_rec">>, "8.0">>,
                    <<<<"tau_1">>, "1.0">>,
                    <<<<"gmax">>, "1400.0">>,
                    <<<<"U">>, "0.43">>>>],
    [name |-> "NMDA", point_process |-> <<"NMDA", "granule">>,
     attributes |-> <<<<<<"tau_facil">>, "5.0">>,
                    <<<<"tau_rec">>, "8.0">>,
                    <<<<"tau_1">>, "1.0">>,
                    <<<<"gmax">>, "23500.0">>,
                    <<<<"U">>, "0.43">>>>],
    [name |-> "GABA", point_process |-> <<"GABA", "granule">>,
     attributes |-> <<<<<<"U">>, "0.35">>>>]
    >>

\* GranuleCellMildAdapting.section_types: one entry per role in source order; a mechanism is
\* <<name>> or <<name, variant tag>>, an attribute key <<name>> or
\* <<name, mechanism>>; synapses is <<>> where the role has no such key
GranuleCellMildAdapting_section_types ==
    <<
    [role |-> "soma",
     synapses |-> <<>>,
     mechanisms |-> <<<<"Leak">>, <<"Kv3_4">>, <<"Kv4_3">>, <<"Kir2_3">>, <<"Ca">>, <<"Kv1_1">>, <<"Kv1_5">>, <<"Kv2_2">>, <<"cdp5", "CR">>>>,
     attributes |-> <<<<<<"Ra">>, "100.0">>,
                    <<<<"cm">>, "2.0">>,
                    <<<<"e", "Leak">>, "-60.0">>,
                    <<<<"ek">>, "-88.0">>,
                    <<<<"eca">>, "137.5">>,
                    <<<<"gmax", "Leak">>, "0.00020821612898">>,
                    <<<<"gkbar", "Kv3_4">>, "0.00053837153611">>,
                    <<<<"gkbar", "Kv4_3">>, "0.0032501728451">>,
                    <<<<"gkbar", "Kir2_3">>, "0.00080747403036">>,
                    <<<<"gcabar", "Ca">>, "0.00066384354031">>,
                    <<<<"gbar", "Kv1_1">>, "0.00465206922817">>,
                    <<<<"gKur", "Kv1_5">>, "0.00106988075956">>,
                    <<<<"gKv2_2bar", "Kv2_2">>, "2.59495769e-05">>>>],
    [role |-> "dendrites",
     synapses |-> <<"NMDA", "AMPA", "GABA">>,
     mechanisms |-> <<<<"Leak">>, <<"Leak", "GABA">>, <<"Ca">>, <<"Kca1_1">>, <<"Kv1_1">>, <<"cdp5", "CR">>>>,
     attributes |-> <<<<<<"Ra">>, "100.0">>,
                    <<<<"cm">>, "2.5">>,
                    <<<<"e", "Leak">>, "-60.0">>,
                    <<<<"ek">>, "-88.0">>,
                    <<<<"eca">>, "137.5">>,
                    <<<<"gmax", "Leak">>, "0.00020424219215">>,
                    <<<<"gcabar", "Ca">>, "0.01841833779253">>,
                    <<<<"gbar", "Kca1_1">>, "0.02998872868395">>,
                    <<<<"gbar", "Kv1_1">>, "0.00010675447184">>>>],
    [role |-> "axon",
     synapses |-> <<>>,
     mechanisms |-> <<>>,
     attributes |-> <<>>],
    [role |-> "ascending_axon",
     synapses |-> <<>>,
     mechanisms |-> <<<<"Na", "granule_cell">>, <<"Kv3_4">>, <<"Leak">>, <<"Ca">>, <<"cdp5", "CR">>>>,
     attributes |-> <<<<<<"Ra">>, "100.0">>,
                    <<<<"cm">>, "1.0">>,
                    <<<<"ena">>, "87.39">>,
                    <<<<"ek">>, "-88.0">>,
                    <<<<"e", "Leak">>, "-60.0">>,
                    <<<<"eca">>, "137.5">>,
                    <<<<"gnabar", "Na">>, "0.02997370971963">>,
                    <<<<"gkbar", "Kv3_4">>, "0.00460299723808">>,
                    <<<<"gmax", "Leak">>, "7.896369759e-05">>,
                    <<<<"gcabar", "Ca">>, "0.0005921443426">>>>],
    [role |-> "parallel_fiber",
     synapses |-> <<>>,
     mechanisms |-> <<<<"Na", "granule_cell">>, <<"Kv3_4">>, <<"Leak">>, <<"Ca">>, <<"cdp5", "CR">>>>,
     attributes |-> <<<<<<"L">>, "20.0">>,
                    <<<<"diam">>, "0.15">>,
                    <<<<"Ra">>, "100.0">>,
                    <<<<"cm">>, "1.0">>,
                    <<<<"ena">>, "87.39">>,
                    <<<<"ek">>, "-88.0">>,
                    <<<<"e", "Leak">>, "-60.0">>,
                    <<<<"eca">>, "137.5">>,
                    <<<<"gnabar", "Na">>, "0.01896618618573">>,
                    <<<<"gkbar", "Kv3_4">>, "0.00940150605258">>,
                    <<<<"gmax", "Leak">>, "4.1272473e-07">>,
                    <<<<"gcabar", "Ca">>, "0.00064742320254">>>>],
    [role |-> "axon_initial_segment",
     synapses |-> <<>>,
     mechanisms |-> <<<<"Na", "granule_cell_FHF">>, <<"Kv3_4">>, <<"Leak">>, <<"Ca">>, <<"Km">>, <<"cdp5", "CR">>>>,
     attributes |-> <<<<<<"Ra">>, "100.0">>,
                    <<<<"cm">>, "1.0">>,
                    <<<<"ena">>, "87.39">>,
                    <<<<"ek">>, "-88.0">>,
                    <<<<"eca">>, "137.5">>,
                    <<<<"e", "Leak">>, "-60.0">>,
                    <<<<"gnabar", "Na">>, "1.06883116205825">>,
                    <<<<"gkbar", "Kv3_4">>, "0.03459245806424">>,
                    <<<<"gmax", "Leak">>, "0.0002501106581">>,
                    <<<<"gcabar", "Ca">>, "0.00011630629281">>,
                    <<<<"gkbar", "Km">>, "0.00044764153079">>>>],
    [role |-> "axon_hillock",
     synapses |-> <<>>,
     mechanisms |-> <<<<"Leak">>, <<"Na", "granule_cell_FHF">>, <<"Kv3_4">>, <<"Ca">>, <<"cdp5", "CR">>>>,
     attributes |-> <<<<<<"Ra">>, "100.0">>,
                    <<<<"cm">>, "2.0">>,
                    <<<<"e", "Leak">>, "-60.0">>,
                    <<<<"ena">>, "87.39">>,
                    <<<<"ek">>, "-88.0">>,
                    <<<<"eca">>, "137.5">>,
                    <<<<"gmax", "Leak">>, "0.00025295417368">>,
                    <<<<"gnabar", "Na">>, "0.0110824997964">>,
                    <<<<"gkbar", "Kv3_4">>, "0.05073256388292">>,
                    <<<<"gcabar", "Ca">>, "0.00028797253573">>>>]
    >>

\* GranuleCellAdapting.synapse_types: name, point process, attributes in source order;
\* every number is written as Python prints the float it denotes
GranuleCellAdapting_synapse_types ==
    <<
    [name |-> "AMPA", point_process |-> <<"AMPA", "granule">>,
     attributes |-> <<<<<<"tau_facil">>, "5.0">>,
                    <<<<"tau_rec">>, "8.0">>,
                    <<<<"tau_1">>, "1.0">>,
                    <<<<"gmax">>, "1400.0">>,
                    <<<<"U">>, "0.43">>>>],
    [name |-> "NMDA", point_process |-> <<"NMDA", "granule">>,
     attributes |-> <<<<<<"tau_facil">>, "5.0">>,
                    <<<<"tau_rec">>, "8.0">>,
                    <<<<"tau_1">>, "1.0">>,
                    <<<<"gmax">>, "23500.0">>,
                    <<<<"U">>, "0.43">>>>],
    [name |-> "GABA", point_process |-> <<"GABA", "granule">>,
     attributes |-> <<<<<<"U">>, "0.35">>>>]
    >>

\* GranuleCellAdapting.section_types: one entry per role in source order; a mechanism is
\* <<name>> or <<name, variant tag>>, an attribute key <<name>> or
\* <<name, mechanism>>; synapses is <<>> where the role has no such key
GranuleCellAdapting_section_types ==
    <<
    [role |-> "soma",
     synapses |-> <<>>,
     mechanisms |-> <<<<"Leak">>, <<"Kv3_4">>, <<"Kv4_3">>, <<"Kir2_3">>, <<"Ca">>, <<"Kv1_1">>, <<"Kv1_5">>, <<"Kv2_2">>, <<"cdp5", "CR">>>>,
     attributes |-> <<<<<<"Ra">>, "100.0">>,
                    <<<<"cm">>, "2.0">>,
                    <<<<"e", "Leak">>, "-60.0">>,
                    <<<<"ek">>, "-88.0">>,
                    <<<<"eca">>, "137.5">>,
                    <<<<"gmax", "Leak">>, "0.00027672909671">>,
                    <<<<"gkbar", "Kv3_4">>, "0.00373151328841">>,
                    <<<<"gkbar", "Kv4_3">>, "0.00273131629726">>,
                    <<<<"gkbar", "Kir2_3">>, "0.00094360184425">>,
                    <<<<"gcabar", "Ca">>, "0.00029165028329">>,
                    <<<<"gbar", "Kv1_1">>, "0.0031675812803">>,
                    <<<<"gKur", "Kv1_5">>, "0.00107176612352">>,
                    <<<<"gKv2_2bar", "Kv2_2">>, "6.710092624e-05">>>>],
    [role |-> "dendrites",
     synapses |-> <<"NMDA", "AMPA", "GABA">>,
     mechanisms |-> <<<<"Leak">>, <<"Leak", "GABA">>, <<"Ca">>, <<"Kca1_1">>, <<"Kv1_1">>, <<"cdp5", "CR">>>>,
     attributes |-> <<<<<<"Ra">>, "100.0">>,
                    <<<<"cm">>, "2.5">>,
                    <<<<"e", "Leak">>, "-60.0">>,
                    <<<<"ek">>, "-88.0">>,
                    <<<<"eca">>, "137.5">>,
                    <<<<"gmax", "Leak">>, "0.00029871180381">>,
                    <<<<"gcabar", "Ca">>, "0.02468709173607">>,
                    <<<<"gbar", "Kca1_1">>, "0.01185742892862">>,
                    <<<<"gbar", "Kv1_1">>, "0.00015853886699">>>>],
    [role |-> "axon",
     synapses |-> <<>>,
     mechanisms |-> <<>>,
     attributes |-> <<>>],
    [role |-> "ascending_axon",
     synapses |-> <<>>,
     mechanisms |-> <<<<"Na", "granule_cell">>, <<"Kv3_4">>, <<"Leak">>, <<"Ca">>, <<"cdp5", "CR">>>>,
     attributes |-> <<<<<<"Ra">>, "100.0">>,
                    <<<<"cm">>, "1.0">>,
                    <<<<"ena">>, "87.39">>,
                    <<<<"ek">>, "-88.0">>,
                    <<<<"e", "Leak">>, "-60.0">>,
                    <<<<"eca">>, "137.5">>,
                    <<<<"gnabar", "Na">>, "0.02544189450831">>,
                    <<<<"gkbar", "Kv3_4">>, "0.00465045149534">>,
                    <<<<"gmax", "Leak">>, "5.303717067e-05">>,
                    <<<<"gcabar", "Ca">>, "0.00031374692347">>>>],
    [role |-> "parallel_fiber",
     synapses |-> <<>>,
     mechanisms |-> <<<<"Na", "granule_cell">>, <<"Kv3_4">>, <<"Leak">>, <<"Ca">>, <<"cdp5", "CR">>>>,
     attributes |-> <<<<<<"L">>, "20.0">>,
                    <<<<"diam">>, "0.15">>,
                    <<<<"Ra">>, "100.0">>,
                    <<<<"cm">>, "1.0">>,
                    <<<<"ena">>, "87.39">>,
                    <<<<"ek">>, "-88.0">>,
                    <<<<"e", "Leak">>, "-60.0">>,
                    <<<<"eca">>, "137.5">>,
                    <<<<"gnabar", "Na">>, "0.0142518259615">>,
                    <<<<"gkbar", "Kv3_4">>, "0.00986495507338">>,
                    <<<<"gmax", "Leak">>, "1.4118928e-07">>,
                    <<<<"gcabar", "Ca">>, "0.00024821458383">>>>],
    [role |-> "axon_initial_segment",
     synapses |-> <<>>,
     mechanisms |-> <<<<"Na", "granule_cell_FHF">>, <<"Kv3_4">>, <<"Leak">>, <<"Ca">>, <<"Km">>, <<"cdp5", "CR">>>>,
     attributes |-> <<<<<<"Ra">>, "100.0">>,
                    <<<<"cm">>, "1.0">>,
                    <<<<"ena">>, "87.39">>,
                    <<<<"ek">>, "-88.0">>,
                    <<<<"eca">>, "137.5">>,
                    <<<<"e", "Leak">>, "-60.0">>,
                    <<<<"gnabar", "Na">>, "1.58101078364095">>,
                    <<<<"gkbar", "Kv3_4">>, "0.03958238508139">>,
                    <<<<"gmax", "Leak">>, "0.00025512657995">>,
                    <<<<"gcabar", "Ca">>, "0.00038160760886">>,
                    <<<<"gkbar", "Km">>, "0.00049717923887">>>>],
    [role |-> "axon_hillock",
     synapses |-> <<>>,
     mechanisms |-> <<<<"Leak">>, <<"Na", "granule_cell_FHF">>, <<"Kv3_4">>, <<"Ca">>, <<"cdp5", "CR">>>>,
     attributes |-> <<<<<<"Ra">>, "100.0">>,
                    <<<<"cm">>, "2.0">>,
                    <<<<"e", "Leak">>, "-60.0">>,
                    <<<<"ena">>, "87.39">>,
                    <<<<"ek">>, "-88.0">>,
                    <<<<"eca">>, "137.5">>,
                    <<<<"gmax", "Leak">>, "0.0003147545313">>,
                    <<<<"gnabar", "Na">>, "0.02091098361637">>,
                    <<<<"gkbar", "Kv3_4">>, "0.03097630887484">>,
                    <<<<"gcabar", "Ca">>, "0.00019803691988">>>>]
    >>

\* GranuleCellAccelerate.synapse_types: name, point process, attributes in source order;
\* every number is written as Python prints the float it denotes
GranuleCellAccelerate_synapse_types ==
    <<
    [name |-> "AMPA", point_process |-> <<"AMPA", "granule">>,
     attributes |-> <<<<<<"tau_facil">>, "5.0">>,
                    <<<<"tau_rec">>, "8.0">>,
                    <<<<"tau_1">>, "1.0">>,
                    <<<<"gmax">>, "1400.0">>,
                    <<<<"U">>, "0.43">>>>],
    [name |-> "NMDA", point_process |-> <<"NMDA", "granule">>,
     attributes |-> <<<<<<"tau_facil">>, "5.0">>,
                    <<<<"tau_rec">>, "8.0">>,
                    <<<<"tau_1">>, "1.0">>,
                    <<<<"gmax">>, "23500.0">>,
                    <<<<"U">>, "0.43">>>>],
    [name |-> "GABA", point_process |-> <<"GABA", "granule">>,
     attributes |-> <<<<<<"U">>, "0.35">>>>]
    >>

\* GranuleCellAccelerate.section_types: one entry per role in source order; a mechanism is
\* <<name>> or <<name, variant tag>>, an attribute key <<name>> or
\* <<name, mechanism>>; synapses is <<>> where the role has no such key
GranuleCellAccelerate_section_types ==
    <<
    [role |-> "soma",
     synapses |-> <<>>,
     mechanisms |-> <<<<"Leak">>, <<"Kv3_4">>, <<"Kv4_3">>, <<"Kir2_3">>, <<"Ca">>, <<"Kv1_1">>, <<"Kv1_5">>, <<"Kv2_2">>, <<"cdp5", "CAM">>>>,
     attributes |-> <<<<<<"Ra">>, "100.0">>,
                    <<<<"cm">>, "2.0">>,
                    <<<<"e", "Leak">>, "-60.0">>,
                    <<<<"ek">>, "-88.0">>,
                    <<<<"eca">>, "137.5">>,
                    <<<<"gmax", "Leak">>, "0.00029038073716">>,
                    <<<<"gkbar", "Kv3_4">>, "0.00076192450952">>,
                    <<<<"gkbar", "Kv4_3">>, "0.00281496839061">>,
                    <<<<"gkbar", "Kir2_3">>, "0.00074725514702">>,
                    <<<<"gcabar", "Ca">>, "0.00060938071784">>,
                    <<<<"gbar", "Kv1_1">>, "0.00569738264555">>,
                    <<<<"gKur", "Kv1_5">>, "0.00083407556714">>,
                    <<<<"gKv2_2bar", "Kv2_2">>, "1.203410852e-05">>>>],
    [role |-> "dendrites",
     synapses |-> <<"NMDA", "AMPA", "GABA">>,
     mechanisms |-> <<<<"Leak">>, <<"Leak", "GABA">>, <<"Ca">>, <<"Kca1_1">>, <<"Kv1_1">>, <<"cdp5", "CAM">>>>,
     attributes |-> <<<<<<"Ra">>, "100.0">>,
                    <<<<"cm">>, "2.5">>,
                    <<<<"e", "Leak">>, "-60.0">>,
                    <<<<"ek">>, "-88.0">>,
                    <<<<"eca">>, "137.5">>,
                    <<<<"gmax", "Leak">>, "0.00025029700737">>,
                    <<<<"gcabar", "Ca">>, "0.00500128008459">>,
                    <<<<"gbar", "Kca1_1">>, "0.01001807454651">>,
                    <<<<"gbar", "Kv1_1">>, "0.00381819207934">>>>],
    [role |-> "axon",
     synapses |-> <<>>,
     mechanisms |-> <<>>,
     attributes |-> <<>>],
    [role |-> "ascending_axon",
     synapses |-> <<>>,
     mechanisms |-> <<<<"Na", "granule_cell">>, <<"Kv3_4">>, <<"Leak">>, <<"Ca">>, <<"cdp5", "CAM">>>>,
     attributes |-> <<<<<<"Ra">>, "100.0">>,
                    <<<<"cm">>, "1.0">>,
                    <<<<"ena">>, "87.39">>,
                    <<<<"ek">>, "-88.0">>,
                    <<<<"e", "Leak">>, "-60.0">>,
                    <<<<"eca">>, "137.5">>,
                    <<<<"gnabar", "Na">>, "0.02630163681502">>,
                    <<<<"gkbar", "Kv3_4">>, "0.00237386061632">>,
                    <<<<"gmax", "Leak">>, "9.364092125e-05">>,
                    <<<<"gcabar", "Ca">>, "0.00068197420273">>>>],
    [role |-> "parallel_fiber",
     synapses |-> <<>>,
     mechanisms |-> <<<<"Na", "granule_cell">>, <<"Kv3_4">>, <<"Leak">>, <<"Ca">>, <<"cdp5", "CAM">>>>,
     attributes |-> <<<<<<"L">>, "20.0">>,
                    <<<<"diam">>, "0.15">>,
                    <<<<"Ra">>, "100.0">>,
                    <<<<"cm">>, "1.0">>,
                    <<<<"ena">>, "87.39">>,
                    <<<<"ek">>, "-88.0">>,
                    <<<<"e", "Leak">>, "-60.0">>,
                    <<<<"eca">>, "137.5">>,
                    <<<<"gnabar", "Na">>, "0.01771848449261">>,
                    <<<<"gkbar", "Kv3_4">>, "0.00817568047037">>,
                    <<<<"gmax", "Leak">>, "3.5301616e-07">>,
                    <<<<"gcabar", "Ca">>, "0.0002085683353">>>>],
    [role |-> "axon_initial_segment",
     synapses |-> <<>>,
     mechanisms |-> <<<<"Na", "granule_cell_FHF">>, <<"Kv3_4">>, <<"Leak">>, <<"Ca">>, <<"Km">>, <<"cdp5", "CAM">>>>,
     attributes |-> <<<<<<"Ra">>, "100.0">>,
                    <<<<"cm">>, "1.0">>,
                    <<<<"ena">>, "87.39">>,
                    <<<<"ek">>, "-88.0">>,
                    <<<<"eca">>, "137.5">>,
                    <<<<"e", "Leak">>, "-60.0">>,
                    <<<<"gnabar", "Na">>, "1.28725006737226">>,
                    <<<<"gkbar", "Kv3_4">>, "0.00649595340654">>,
                    <<<<"gmax", "Leak">>, "0.00029276697557">>,
                    <<<<"gcabar", "Ca">>, "0.00031198539472">>,
                    <<<<"gkbar", "Km">>, "0.00056671971737">>>>],
    [role |-> "axon_hillock",
     synapses |-> <<>>,
     mechanisms |-> <<<<"Leak">>, <<"Na", "granule_cell_FHF">>, <<"Kv3_4">>, <<"Ca">>, <<"cdp5", "CAM">>>>,
     attributes |-> <<<<<<"Ra">>, "100.0">>,
                    <<<<"cm">>, "2.0">>,
                    <<<<"e", "Leak">>, "-60.0">>,
                    <<<<"ena">>, "87.39">>,
                    <<<<"ek">>, "-88.0">>,
                    <<<<"eca">>, "137.5">>,
                    <<<<"gmax", "Leak">>, "0.0003695818972">>,
                    <<<<"gnabar", "Na">>, "0.00928805851462">>,
                    <<<<"gkbar", "Kv3_4">>, "0.02037346310915">>,
                    <<<<"gcabar", "Ca">>, "0.00057726155447">>>>]
    >>

\* Faulty variant: one variant's soma carries a different reversal potential ek.
section_types_stale(v) ==
    CASE v = "GranuleCell" -> GranuleCell_section_types
      [] v = "GranuleCellMildAdapting" -> GranuleCellMildAdapting_section_types
      [] v = "GranuleCellAdapting" ->
            [GranuleCellAdapting_section_types EXCEPT
                ![1].attributes[4] = <<<<"ek">>, "-84.69">>]
      [] v = "GranuleCellAccelerate" -> GranuleCellAccelerate_section_types

\* cls.section_types of variant v
section_types(v) ==
    CASE v = "GranuleCell" -> GranuleCell_section_types
      [] v = "GranuleCellMildAdapting" -> GranuleCellMildAdapting_section_types
      [] v = "GranuleCellAdapting" -> GranuleCellAdapting_section_types
      [] v = "GranuleCellAccelerate" -> GranuleCellAccelerate_section_types

\* cls.synapse_types of variant v
synapse_types(v) ==
    CASE v = "GranuleCell" -> GranuleCell_synapse_types
      [] v = "GranuleCellMildAdapting" -> GranuleCellMildAdapting_synapse_types
      [] v = "GranuleCellAdapting" -> GranuleCellAdapting_synapse_types
      [] v = "GranuleCellAccelerate" -> GranuleCellAccelerate_synapse_types

\* ------------------------------------------------------------ compartments

\* p.Section(name=...): a fresh compartment; L, diam and nseg are 0 until the
\* builder sets them (the simulator's defaults are not part of this code).
Section(name) ==
    [name |-> name, labels |-> <<>>, L |-> 0, diam |-> 0, nseg |-> 0,
     pts |-> <<>>, parent |-> 0, pend |-> 0]

\* section.connect(target, x): x is the end of target; the default end is 1
Connect(sec, target, x) == [sec EXCEPT !.parent = target, !.pend = x]

\* the model object before builder runs: self.position is all it holds
NewModel(pos) ==
    [position |-> pos, sections |-> <<>>,
     soma |-> <<>>, dend |-> <<>>, axon |-> <<>>,
     axon_hillock |-> 0, axon_initial_segment |-> 0, ascending_axon |-> 0,
     parallel_fiber |-> <<>>, y_pf |-> 0,
     fiber_section_length |-> 0, fiber_segment_length |-> 0,
     ascending_axon_length |-> 0, parallel_fiber_length |-> 0,
     error |-> "none"]

\* ------------------------------------------------------------- the builder

\* builder, lines 9-12: the four length constants (micrometres)
set_lengths(m, pfl) ==
    [m EXCEPT !.fiber_section_length = 20,
              !.fiber_segment_length = 7,
              !.ascending_axon_length = 126,
              !.parallel_fiber_length = pfl]

\* Faulty variant: the soma centred on the position instead of starting at it.
soma_points_centred(position) ==
    <<Plus(position, <<0, -281116, 0>>), Plus(position, <<0, 281116, 0>>)>>

\* add_3d([self.position, self.position + [0., 5.62232, 0.]])
soma_points(position) == <<position, Plus(position, <<0, 562232, 0>>)>>

build_soma(m) ==
    LET s0 == [Section(<<>>) EXCEPT
                  !.L = 562232, !.diam = 580000, !.nseg = 1,
                  !.pts = soma_points(m.position)]
        at == Len(m.sections) + 1
    IN  [m EXCEPT !.sections = Append(m.sections, s0), !.soma = <<at>>]

\* Faulty variant: pt = dendrite_position without the copy, so every point's shift
\* adds to the shifts before it.
dendrite_point_nocopy(dendrite_position, L, j) ==
    <<dendrite_position[1],
      dendrite_position[2] - (L * ((j * (j + 1)) \div 2)) \div 10,
      dendrite_position[3]>>

\* the j-th point of a dendrite: pt = dendrite_position.copy(); pt[1] -= L*j/10
dendrite_point(dendrite_position, L, j) ==
    <<dendrite_position[1], dendrite_position[2] - (L * j) \div 10,
      dendrite_position[3]>>

\* one dendrite, i in 0..3: dendrite_position[0] += (i - 1.5) * 2
dendrite(m, i) ==
    LET dendrite_position == Plus(m.position, <<(2 * i - 3) * Unit, 0, 0>>)
        L == 15 * Unit
    IN  Connect([Section(<<>>) EXCEPT
                    !.L = L, !.diam = 75000,
                    !.pts = [k \in 1..10 |->
                                dendrite_point(dendrite_position, L, k - 1)]],
                m.soma[1], 0)

\* Faulty variant: both .copy() calls dropped, so dendrite_position and every
\* pt are self.position itself: each shift lands in self.position, and the ten
\* points of a dendrite are that one array as the inner loop left it.
position_drift(position, i) ==
    <<position[1] + (i + 1) * (i - 3) * Unit,
      position[2] - (i + 1) * 6750000,
      position[3]>>

build_dendrites_alias(m) ==
    LET base == Len(m.sections)
        aliased(i) ==
            Connect([Section(<<>>) EXCEPT
                        !.L = 15 * Unit, !.diam = 75000,
                        !.pts = [k \in 1..10 |-> position_drift(m.position, i)]],
                    m.soma[1], 0)
    IN  [m EXCEPT !.sections = m.sections \o [k \in 1..4 |-> aliased(k - 1)],
                  !.dend = [k \in 1..4 |-> base + k],
                  !.position = position_drift(m.position, 3)]

build_dendrites(m) ==
    LET base == Len(m.sections)
    IN  [m EXCEPT !.sections = m.sections \o [k \in 1..4 |-> dendrite(m, k - 1)],
                  !.dend = [k \in 1..4 |-> base + k]]

build_hillock(m) ==
    LET h  == Len(m.sections) + 1
        a  == Len(m.sections) + 2
        hillock ==
            Connect([Section(<<>>) EXCEPT
                        !.L = 1 * Unit, !.diam = 150000, !.nseg = 1,
                        !.pts = <<Plus(m.position, <<0, 562232, 0>>),
                                  Plus(m.position, <<0, 662232, 0>>)>>,
                        !.labels = <<"axon_hillock">>],
                    m.soma[1], 0)
        ais ==
            Connect([Section(<<"axon_initial_segment">>) EXCEPT
                        !.labels = <<"axon_initial_segment">>,
                        !.L = 10 * Unit, !.diam = 70000, !.nseg = 1,
                        !.pts = <<Plus(m.position, <<0, 662232, 0>>),
                                  Plus(m.position, <<0, 1662232, 0>>)>>],
                    h, 1)
    IN  [m EXCEPT !.sections = m.sections \o <<hillock, ais>>,
                  !.axon = <<h, a>>,
                  !.axon_hillock = h,
                  !.axon_initial_segment = a]

\* fraction = [0.0, 0.1, ..., 1.0]: the k-th fraction, k in 0..10, of `length`
fraction_of(k, length) == (k * length * Unit) \div 10

\* Faulty variant: the start offset y left out of the stored value.
last_y_nostart(y, seg_length, n) == seg_length * n * Unit

\* y_pf = y + seg_length * n
last_y(y, seg_length, n) == y + seg_length * n * Unit

build_ascending_axon(m) ==
    IF m.fiber_segment_length = 0
    THEN [m EXCEPT !.error = "ZeroDivisionError"]
    ELSE
    LET seg_length == m.fiber_segment_length
        n  == IntDiv(m.ascending_axon_length, seg_length)
        at == Len(m.sections) + 1
        y  == 1662232
        aa == Connect([Section(<<>>) EXCEPT
                          !.labels = <<"ascending_axon">>,
                          !.nseg = n,
                          !.L = m.ascending_axon_length * Unit,
                          !.diam = 30000,
                          !.pts = [k \in 1..11 |->
                                     Plus(m.position,
                                          <<0, y + fraction_of(k - 1, m.ascending_axon_length), 0>>)]],
                      m.axon_initial_segment, 1)
    IN  [m EXCEPT !.sections = Append(m.sections, aa),
                  !.ascending_axon = at,
                  !.axon = Append(m.axon, at),
                  !.y_pf = last_y(y, seg_length, n)]

\* sign = 1 - (id % 2) * 2
pf_sign(id) == 1 - (id % 2) * 2

\* the two 3-D points of parallel-fiber section id (lines 102-107)
pf_points(position, y, center, id, section_length) ==
    LET sign == pf_sign(id)
        z    == (id \div 2) * section_length * Unit
    IN  <<Plus(position, <<0, y, center + sign * z>>),
          Plus(position, <<0, y, center + sign * (z + section_length * Unit)>>)>>

\* Faulty variant: the id < 2 branch dropped, so parallel_fiber[id - 2] wraps around
\* for id 0 and 1 (a negative index counts from the end of the list).
pf_parent_wrap(id, aa, pf) == pf[((id - 2) % Len(pf)) + 1]

\* Faulty variant: every section connected to its predecessor, one single chain.
pf_parent_prev(id, aa, pf) == IF id < 2 THEN aa ELSE pf[(id - 1) + 1]

\* what section id connects to (lines 108-111); pf holds the indices of
\* self.parallel_fiber, aa is self.ascending_axon
pf_parent(id, aa, pf) == IF id < 2 THEN aa ELSE pf[(id - 2) + 1]

\* Faulty variant: the count rounded up instead of truncated.
pf_count_ceil(length, section_length) ==
    RangeLen(-((-length) \div section_length))

\* how many sections line 95 creates
pf_count(length, section_length) == RangeLen(IntDiv(length, section_length))

build_parallel_fiber(m) ==
    IF m.fiber_section_length = 0
    THEN [m EXCEPT !.error = "ZeroDivisionError"]
    ELSE
    LET section_length == m.fiber_section_length
        cnt    == pf_count(m.parallel_fiber_length, section_length)
        base   == Len(m.sections)
        pf     == [k \in 1..cnt |-> base + k]
        y      == m.y_pf
        center == m.position[3]
        sec(id) ==
            Connect([Section(<<"parellel_fiber_", id>>) EXCEPT
                        !.labels = <<"parallel_fiber">>,
                        !.L = section_length * Unit, !.diam = 30000,
                        !.pts = pf_points(m.position, y, center, id, section_length)],
                    pf_parent(id, m.ascending_axon, pf), 1)
    IN  [m EXCEPT !.sections = m.sections \o [k \in 1..cnt |-> sec(k - 1)],
                  !.parallel_fiber = pf,
                  !.axon = m.axon \o pf]

\* ---------------------------------------------------------------- actions

Init ==
    /\ variant \in Variants
    /\ \E pos \in Positions : model = NewModel(pos)
    /\ pc = "builder"

\* after a step: the next step, or the end of the run when it raised
Goto(m, next) == IF m.error = "none" THEN next ELSE "raised"

Builder ==
    /\ pc = "builder"
    /\ model' = set_lengths(model, 2000)
    /\ pc' = "build_soma"
    /\ UNCHANGED variant

BuildSoma ==
    /\ pc = "build_soma"
    /\ model' = build_soma(model)
    /\ pc' = Goto(model', "build_dendrites")
    /\ UNCHANGED variant

BuildDendrites ==
    /\ pc = "build_dendrites"
    /\ model' = build_dendrites(model)
    /\ pc' = Goto(model', "build_hillock")
    /\ UNCHANGED variant

BuildHillock ==
    /\ pc = "build_hillock"
    /\ model' = build_hillock(model)
    /\ pc' = Goto(model', "build_ascending_axon")
    /\ UNCHANGED variant

BuildAscendingAxon ==
    /\ pc = "build_ascending_axon"
    /\ model' = build_ascending_axon(model)
    /\ pc' = Goto(model', "build_parallel_fiber")
    /\ UNCHANGED variant

BuildParallelFiber ==
    /\ pc = "build_parallel_fiber"
    /\ model' = build_parallel_fiber(model)
    /\ pc' = Goto(model', "done")
    /\ UNCHANGED variant

Next ==
    \/ Builder
    \/ BuildSoma
    \/ BuildDendrites
    \/ BuildHillock
    \/ BuildAscendingAxon
    \/ BuildParallelFiber

Spec == Init /\ [][Next]_vars

\* The builder's steps run with another parallel_fiber_length than line 12
\* sets: the other three constants are left as builder sets them.
PFLengths == {-45, -20, -5, 0, 5, 19, 20, 45}

BuilderWithLength ==
    /\ pc = "builder"
    /\ \E pfl \in PFLengths : model' = set_lengths(model, pfl)
    /\ pc' = "build_soma"
    /\ UNCHANGED variant

NextLen ==
    \/ BuilderWithLength
    \/ BuildSoma
    \/ BuildDendrites
    \/ BuildHillock
    \/ BuildAscendingAxon
    \/ BuildParallelFiber

SpecLen == Init /\ [][NextLen]_vars

\* ------------------------------------------------------- reading the tree

Secs == model.sections

SecIds == 1..Len(Secs)

\* soma[0]
Root == model.soma[1]

\* The compartments met following parents from i, i first, until one has no
\* parent or `fuel` connections were followed.
RECURSIVE Ancestors(_, _, _)
Ancestors(secs, i, fuel) ==
    IF secs[i].parent = 0 \/ fuel = 0
    THEN <<i>>
    ELSE <<i>> \o Ancestors(secs, secs[i].parent, fuel - 1)

Last(s) == s[Len(s)]

\* the compartment of parallel-fiber section id (0-based, as in the code)
PF(id) == Secs[model.parallel_fiber[id + 1]]

PFIds == 0..(Len(model.parallel_fiber) - 1)

AA == Secs[model.ascending_axon]

\* ------------------------------------------------------------------ claims

\* C1: between the builder's steps and at its end, every compartment other
\* than soma[0] has a parent, which was created before it; soma[0] alone has
\* none; and following parents from any compartment never revisits a
\* compartment and ends at soma[0].
C1_TreeInvariant ==
    \A i \in SecIds :
        LET up == Ancestors(Secs, i, Len(Secs)) IN
        /\ (Secs[i].parent = 0) = (i = Root)
        /\ i # Root => Secs[i].parent \in 1..(i - 1)
        /\ Last(up) = Root
        /\ \A a, b \in 1..Len(up) : up[a] = up[b] => a = b

\* C1 witness: the finished tree, with a parallel-fiber compartment whose
\* path to soma[0] passes through more than fifty compartments.
C1_Witness ==
    /\ pc = "done"
    /\ Len(model.parallel_fiber) >= 2
    /\ \E i \in SecIds : Len(Ancestors(Secs, i, Len(Secs))) > 50

\* C2: build_parallel_fiber creates exactly 100 compartments; ids 0 and 1
\* are connected to the ascending axon, every id >= 2 to id - 2; the parent
\* chain of id holds only parallel-fiber compartments of id's parity and
\* reaches the ascending axon after floor(id/2) + 1 connections.
C2_TwoChains ==
    pc = "done" =>
        /\ Len(model.parallel_fiber) = 100
        /\ \A id \in PFIds :
            LET me == model.parallel_fiber[id + 1]
                up == Ancestors(Secs, me, (id \div 2) + 1)
            IN  /\ Secs[me].parent =
                     IF id < 2 THEN model.ascending_axon
                               ELSE model.parallel_fiber[(id - 2) + 1]
                /\ Len(up) = (id \div 2) + 2
                /\ Last(up) = model.ascending_axon
                /\ \A k \in 1..(Len(up) - 1) :
                     \E j \in PFIds : /\ up[k] = model.parallel_fiber[j + 1]
                                      /\ j % 2 = id % 2

\* C2 witness: the fiber is built and section 99 hangs on section 97.
C2_Witness ==
    /\ pc = "done"
    /\ Len(model.parallel_fiber) = 100
    /\ PF(99).parent = model.parallel_fiber[97 + 1]
    /\ PF(1).parent = model.ascending_axon

P == model.position

AfterStep(steps) == pc \in steps

\* C3 (as claimed): for any position the first 3-D point of parallel-fiber
\* compartments 0 and 1 is the last 3-D point of the ascending axon, and every
\* parallel-fiber 3-D point has Y = P.y + y_pf.
C3_FiberStartsAtAxonEnd ==
    pc = "done" =>
        /\ PF(0).pts[1] = Last(AA.pts)
        /\ PF(1).pts[1] = Last(AA.pts)
        /\ \A id \in PFIds : \A k \in 1..Len(PF(id).pts) :
               PF(id).pts[k][2] = P[2] + model.y_pf

\* C4 (as claimed): for every id in 0..99 the sign is +1 for even and -1 for
\* odd ids, and the two 3-D points lie at Z offsets sign*floor(id/2)*20 and
\* sign*(floor(id/2)+1)*20 from the centre Z coordinate position[2].
C4_ZOffsetsFromCentre ==
    pc = "done" =>
        \A id \in 0..99 :
            LET sign == IF id % 2 = 0 THEN 1 ELSE -1 IN
            /\ pf_sign(id) = sign
            /\ Len(PF(id).pts) = 2
            /\ PF(id).pts[1][3] - P[3] = sign * (id \div 2) * 20 * Unit
            /\ PF(id).pts[2][3] - P[3] = sign * ((id \div 2) + 1) * 20 * Unit

\* C5: after build_ascending_axon the ascending axon has nseg 18, length 126
\* and 11 3-D points at tenths 0..10 of its length from Y offset 16.62232;
\* y_pf is 16.62232 + 7 * 18, the Y offset of the last point, 16.62232 + 126.
C5_AscendingAxon ==
    AfterStep({"build_parallel_fiber", "done"}) =>
        /\ AA.nseg = 18
        /\ AA.L = 126 * Unit
        /\ Len(AA.pts) = 11
        /\ \A k \in 0..10 :
              AA.pts[k + 1] =
                 <<P[1], P[2] + 1662232 + (k * 126 * Unit) \div 10, P[3]>>
        /\ model.y_pf = 1662232 + model.fiber_segment_length * 18 * Unit
        /\ model.y_pf = Last(AA.pts)[2] - P[2]
        /\ model.y_pf = 1662232 + 126 * Unit

\* C5 witness: the ascending axon is built and its last point lies 126 above
\* its first.
C5_Witness ==
    /\ pc = "build_parallel_fiber"
    /\ model.ascending_axon # 0
    /\ Last(AA.pts)[2] - AA.pts[1][2] = 126 * Unit

\* C6: after build_dendrites there are exactly 4 dendrites; dendrite i has 10
\* 3-D points, point j at (P.x + (i-1.5)*2, P.y - 15*j/10, P.z); each is
\* connected to soma[0] at end 0.
C6_Dendrites ==
    AfterStep({"build_hillock", "build_ascending_axon",
               "build_parallel_fiber", "done"}) =>
        /\ Len(model.dend) = 4
        /\ Cardinality({model.dend[k] : k \in 1..4}) = 4
        /\ \A i \in 0..3 :
            LET d == Secs[model.dend[i + 1]] IN
            /\ Len(d.pts) = 10
            /\ \A j \in 0..9 :
                  d.pts[j + 1] =
                     <<P[1] + (2 * i - 3) * Unit, P[2] - 150000 * j, P[3]>>
            /\ d.parent = Root
            /\ d.pend = 0

\* C6 witness: the dendrites are built at a position off the origin and the
\* last point of dendrite 3 lies 13.5 below it and 3 to its right.
C6_Witness ==
    /\ pc = "build_hillock"
    /\ P # <<0, 0, 0>>
    /\ Len(model.dend) = 4
    /\ Secs[model.dend[4]].pts[10] = <<P[1] + 3 * Unit, P[2] - 1350000, P[3]>>

\* C7: after build_soma there is exactly one soma compartment, with one
\* segment, whose first 3-D point is P and whose second is P + (0, 5.62232, 0).
C7_Soma ==
    AfterStep({"build_dendrites", "build_hillock", "build_ascending_axon",
               "build_parallel_fiber", "done"}) =>
        /\ Len(model.soma) = 1
        /\ Secs[Root].nseg = 1
        /\ Len(Secs[Root].pts) = 2
        /\ Secs[Root].pts[1] = P
        /\ Secs[Root].pts[2] = <<P[1], P[2] + 562232, P[3]>>

\* C7 witness: the soma is built at a position with no zero coordinate.
C7_Witness ==
    /\ pc = "build_dendrites"
    /\ Len(model.soma) = 1
    /\ P[1] # 0 /\ P[2] # 0 /\ P[3] # 0
    /\ Secs[Root].pts[1] = P

\* the entry of role r in a section_types table
Entry(t, r) == t[CHOOSE k \in 1..Len(t) : t[k].role = r]

Roles(t) == {t[k].role : k \in 1..Len(t)}

\* the attribute names the claim calls non-conductance and conductance
NonConductance == {"Ra", "cm", "L", "diam", "e", "ek", "ena", "eca"}

Conductance ==
    {"gmax", "gkbar", "gcabar", "gbar", "gKur", "gKv2_2bar", "gnabar"}

Cdp5Tag(v) == IF v = "GranuleCellAccelerate" THEN "CAM" ELSE "CR"

\* C9: the class of the model being built and every other variant have the
\* same synapse_types and the same roles; per role the same synapses, the same
\* mechanism names in the same order and the same attribute keys in the same
\* order; mechanisms differ at most in the tag of cdp5 (CAM in
\* GranuleCellAccelerate, CR in the others); attribute values differ at most
\* for conductance keys, and every other key is one of Ra, cm, L, diam, e, ek,
\* ena, eca and has the same value in both.
C9_VariantsShareStructure ==
    \A w \in Variants :
        LET a == section_types(variant)
            b == section_types(w)
        IN  /\ synapse_types(variant) = synapse_types(w)
            /\ Len(a) = Len(b)
            /\ Roles(a) = Roles(b)
            /\ Cardinality(Roles(a)) = Len(a)
            /\ \A r \in Roles(a) :
                LET ea == Entry(a, r)
                    eb == Entry(b, r)
                IN  /\ ea.synapses = eb.synapses
                    /\ Len(ea.mechanisms) = Len(eb.mechanisms)
                    /\ \A k \in 1..Len(ea.mechanisms) :
                        /\ ea.mechanisms[k][1] = eb.mechanisms[k][1]
                        /\ IF ea.mechanisms[k][1] = "cdp5"
                           THEN /\ ea.mechanisms[k] = <<"cdp5", Cdp5Tag(variant)>>
                                /\ eb.mechanisms[k] = <<"cdp5", Cdp5Tag(w)>>
                           ELSE ea.mechanisms[k] = eb.mechanisms[k]
                    /\ Len(ea.attributes) = Len(eb.attributes)
                    /\ \A k \in 1..Len(ea.attributes) :
                        /\ ea.attributes[k][1] = eb.attributes[k][1]
                        /\ ea.attributes[k][1][1] \in NonConductance \cup Conductance
                        /\ ea.attributes[k][1][1] \in NonConductance =>
                              ea.attributes[k][2] = eb.attributes[k][2]

\* C9 witness: a built GranuleCellAccelerate model, every label of which is a
\* role of its table, whose soma carries cdp5 with the tag CAM and a Kv3_4
\* conductance other than GranuleCellAdapting's.
C9_Witness ==
    /\ variant = "GranuleCellAccelerate"
    /\ pc = "done"
    /\ \A i \in SecIds : \A k \in 1..Len(Secs[i].labels) :
          Secs[i].labels[k] \in Roles(section_types(variant))
    /\ LET ea == Entry(section_types(variant), "soma")
           eb == Entry(section_types("GranuleCellAdapting"), "soma")
       IN  /\ ea.mechanisms[9] = <<"cdp5", "CAM">>
           /\ eb.mechanisms[9] = <<"cdp5", "CR">>
           /\ ea.attributes[7][1] = <<"gkbar", "Kv3_4">>
           /\ ea.attributes[7][2] # eb.attributes[7][2]

\* C10: whatever parallel_fiber_length is, no step raises an error; and when
\* it is zero, negative or smaller than fiber_section_length, the count
\* build_parallel_fiber computes is zero or negative, no parallel-fiber
\* compartment exists and the axon list is exactly (hillock, initial
\* segment, ascending axon).
C10_EmptyFiberNoError ==
    /\ model.error = "none"
    /\ pc # "raised"
    /\ (/\ pc = "done"
        /\ \/ model.parallel_fiber_length <= 0
           \/ model.parallel_fiber_length < model.fiber_section_length)
       => /\ IntDiv(model.parallel_fiber_length, model.fiber_section_length) <= 0
          /\ model.parallel_fiber = <<>>
          /\ \A i \in SecIds : Secs[i].labels # <<"parallel_fiber">>
          /\ model.axon = <<model.axon_hillock, model.axon_initial_segment,
                            model.ascending_axon>>
          /\ Len(Secs) = 8

\* C10 witness: build_parallel_fiber has run with a negative length whose
\* count is negative, and the axon list holds three compartments.
C10_Witness ==
    /\ pc = "done"
    /\ model.parallel_fiber_length < 0
    /\ IntDiv(model.parallel_fiber_length, model.fiber_section_length) < 0
    /\ Len(model.axon) = 3

\* C11: no step of the builder changes the placement position: across every
\* step (the length constants, build_soma, build_dendrites, build_hillock,
\* build_ascending_axon, build_parallel_fiber) self.position keeps its three
\* values.
C11_PositionUnchanged == [][model'.position = model.position]_vars

\* C11 witness: the builder has finished at a position off the origin; the
\* dendrites carry their X shifts (-3 and +3 for the first and the last) and
\* the parallel fiber is built.
C11_Witness ==
    /\ pc = "done"
    /\ P[1] # 0 /\ P[2] # 0 /\ P[3] # 0
    /\ Secs[model.dend[1]].pts[1][1] = P[1] - 3 * Unit
    /\ Secs[model.dend[4]].pts[1][1] = P[1] + 3 * Unit
    /\ Len(model.parallel_fiber) = 100

\* the 3-D point of a compartment at end x: its first point at end 0, its last
\* at end 1
EndPoint(sec, x) == IF x = 0 THEN sec.pts[1] ELSE Last(sec.pts)

\* the hillock, the initial segment and the ascending axon, once built
AxialChain ==
    {model.axon_hillock, model.axon_initial_segment, model.ascending_axon}
        \ {0}

\* C12 (as claimed): for each of the hillock, the initial segment and the
\* ascending axon, its first 3-D point is the 3-D point of its parent at the
\* end it is connected to.
C12_WiringMatchesGeometry ==
    \A i \in AxialChain :
        Secs[i].pts[1] = EndPoint(Secs[Secs[i].parent], Secs[i].pend)

\* the value of attribute `key` in a section_types entry
Attr(entry, key) ==
    entry.attributes[CHOOSE k \in 1..Len(entry.attributes) :
                        entry.attributes[k][1] = key][2]

\* a table value of L or diam (micrometres) in the builder's fixed point
Micrometres(v) ==
    CASE v = "20.0" -> 20 * Unit
      [] v = "0.15" -> 15000

\* C13 (as claimed): every built parallel-fiber compartment has length 20 and
\* diameter 0.3, and these equal the L and diam the parallel_fiber role
\* declares in the section_types of each of the four variants.
C13_FiberDimensionsMatchTable ==
    pc = "done" =>
        \A v \in Variants : \A id \in PFIds :
            LET e == Entry(section_types(v), "parallel_fiber") IN
            /\ PF(id).L = 20 * Unit
            /\ PF(id).diam = 30000
            /\ PF(id).L = Micrometres(Attr(e, <<"L">>))
            /\ PF(id).diam = Micrometres(Attr(e, <<"diam">>))

====
